---- MODULE Spec2Model ----
(***************************************************************************)
(* A model of cto-af/random: the Random class (src/src/index.ts), which    *)
(* derives numbers from a pluggable byte source, and the Vose alias-method *)
(* sampler (src/src/vose.ts).                                              *)
(*                                                                         *)
(* Numbers are exact rationals [n |-> numerator, d |-> denominator].       *)
(* JavaScript values that may be undefined are records                     *)
(* [k |-> "num", v |-> x], [k |-> "undef", v |-> 0], and an array hole is  *)
(* [k |-> "hole", v |-> 0].                                                *)
(***************************************************************************)
EXTENDS Integers, Sequences, FiniteSets, TLC

VARIABLES
  spareGauss,  \* Random.#spareGauss: NoSpare or the spare deviate
  freqs,       \* Random.#freqs: array identity -> cached Vose
  built,       \* how many Vose objects Random.pick constructed, per array
  input,       \* the weight vector handed to `new Vose(weights)`
  vose,        \* the Vose that `new Vose(input)` built, or NoVose
  op,          \* the most recent call: its name and arguments
  draws,       \* the sizes the byte source was asked for during that call
  ret,         \* what that call returned
  threw,       \* the error that call threw, or "none"
  gaussLog     \* the most recent gauss call: whether it drew, and its s

vars ==
  <<spareGauss, freqs, built, input, vose, op, draws, ret, threw, gaussLog>>

----------------------------------------------------------------------------
(* Bounds of the model *)

\* longest weight vector handed to the Vose constructor
MaxLen == 3
\* largest weight
MaxW == 2
\* largest argument of upto
MaxUpto == 3
\* largest byte count asked of bytes and uBigInt
MaxBytes == 2
\* most passes of the gauss loop in one call
MaxGaussIter == 2

----------------------------------------------------------------------------
(* JavaScript values *)

Num(x) == [k |-> "num", v |-> x]
Undef == [k |-> "undef", v |-> 0]
Hole == [k |-> "hole", v |-> 0]

\* `p ?? 1`: undefined and null count as 1
OrOne(e) == IF e.k = "num" THEN e.v ELSE 1

----------------------------------------------------------------------------
(* Exact rationals with positive denominators *)

RECURSIVE GCD(_, _)
GCD(a, b) == IF b = 0 THEN a ELSE GCD(b, a % b)

Abs(x) == IF x < 0 THEN -x ELSE x

Rat(n, d) ==
  LET g == GCD(Abs(n), d)
  IN  [n |-> n \div g, d |-> d \div g]

RInt(x) == [n |-> x, d |-> 1]

RAdd(a, b) ==
  LET l == (a.d \div GCD(a.d, b.d)) * b.d
  IN  Rat(a.n * (l \div a.d) + b.n * (l \div b.d), l)

RMul(a, b) == Rat(a.n * b.n, a.d * b.d)

RLess(a, b) == a.n * b.d < b.n * a.d

RECURSIVE Pow2(_)
Pow2(e) == IF e = 0 THEN 1 ELSE 2 * Pow2(e - 1)

----------------------------------------------------------------------------
(* The byte source.  It is external: each call returns some buffer of the  *)
(* size asked for.  The model lets it return the buffers below.            *)

\* 4-byte buffers: 0..3, 256, and the largest value below 2^31
Buf4 ==
  {<<0, 0, 0, b>> : b \in 0..3}
    \cup {<<0, 0, 1, 0>>, <<127, 255, 255, 255>>}

\* 8-byte buffers, least significant byte first.  The low five bytes are 0,
\* so the 52 mantissa bits are the low nibble of byte 6 and byte 5 followed
\* by 40 zero bits: mantissa 0, 1/4, 1/2 and the largest such value; bytes
\* 6 and 7 carry arbitrary bits where random() forces its own.
Buf8 ==
  { <<0, 0, 0, 0, 0, 0, 0, 0>>,
    <<0, 0, 0, 0, 0, 0, 164, 128>>,
    <<0, 0, 0, 0, 0, 0, 8, 63>>,
    <<0, 0, 0, 0, 0, 255, 255, 255>> }

Source(size) ==
  IF size = 4 THEN Buf4
  ELSE IF size = 8 THEN Buf8
  ELSE [1..size -> {0, 255}]

----------------------------------------------------------------------------
(* Random: the values derived from the bytes *)

\* DataView.getUint32(0, false): big-endian
GetUint32(b) == ((b[1] * 256 + b[2]) * 256 + b[3]) * 256 + b[4]

\* upto(num) for num # 0: uInt32 % num
UptoValue(num, b) == GetUint32(b) % num

\* uBigInt: ret = (ret << 8n) + BigInt(b), over the bytes in order
RECURSIVE BigOf(_, _)
BigOf(b, acc) ==
  IF b = <<>> THEN acc ELSE BigOf(Tail(b), acc * 256 + Head(b))

\* a variant that forces 0xe0 into buf[6], one exponent bit short
ForceBits_ExponentShort(b) ==
  [b EXCEPT ![7] = (b[7] % 16) + 224, ![8] = 63]

\* buf[6] |= 0xf0; buf[7] = 0x3f   (buf[6], buf[7] are b[7], b[8] here)
ForceBits(b) ==
  [b EXCEPT ![7] = (b[7] % 16) + 240, ![8] = 63]

\* DataView.getFloat64(0, true) of a little-endian buffer whose low five
\* bytes are 0: sign, biased exponent, and the top 12 mantissa bits
Float64Sign(b) == b[8] \div 128
Float64Exp(b) == (b[8] % 128) * 16 + (b[7] \div 16)
Float64Mant12(b) == (b[7] % 16) * 256 + b[6]

\* the double's value, for exponents from 1022 up:
\* (-1)^sign * 2^(exp-1023) * (1 + mant12/4096)
GetFloat64(b) ==
  LET mag == Rat((4096 + Float64Mant12(b)) * Pow2(Float64Exp(b) - 1022), 8192)
  IN  IF Float64Sign(b) = 1 THEN [n |-> -mag.n, d |-> mag.d] ELSE mag

\* random(): force the bits, read the double, subtract 1.0
RandomValue(b) == RAdd(GetFloat64(ForceBits(b)), RInt(-1))

----------------------------------------------------------------------------
(* Vose: construction (vose.ts, constructor) *)

NoError == [e |-> "none", v |-> 0]
NegativeError(v) == [e |-> "negative", v |-> v]
SparseError == [e |-> "sparse", v |-> 0]
ZeroTotalError == [e |-> "zero-total", v |-> 0]
AssertError == [e |-> "assert", v |-> 0]
TypeError == [e |-> "type", v |-> 0]

WeightEntries == {Hole, Undef} \cup {Num(w) : w \in -2..MaxW}

WeightVectors == UNION {[1..len -> WeightEntries] : len \in 0..MaxLen}

\* weights.reduce(...): visits the entries that are not holes, in index
\* order; counts them, adds them up, and throws at the first negative one
RECURSIVE Reduce(_, _, _, _)
Reduce(weights, i, n, t) ==
  IF i > Len(weights) THEN [err |-> NoError, n |-> n, tot |-> t]
  ELSE IF weights[i].k = "hole" THEN Reduce(weights, i + 1, n, t)
  ELSE IF OrOne(weights[i]) < 0
    THEN [err |-> NegativeError(OrOne(weights[i])), n |-> n + 1, tot |-> t]
  ELSE Reduce(weights, i + 1, n + 1, t + OrOne(weights[i]))

\* a variant that drops the `n > 0` test
ZeroTotal_AnyLength(tot, n) == tot = 0

\* (tot === 0) && (n > 0)
ZeroTotal(tot, n) == tot = 0 /\ n > 0

\* a variant that checks for holes before it looks at any weight
Validate_SparseFirst(weights) ==
  LET r == Reduce(weights, 1, 0, 0)
  IN  IF \E i \in 1..Len(weights) : weights[i].k = "hole" THEN SparseError
      ELSE IF r.err # NoError THEN r.err
      ELSE IF ZeroTotal(r.tot, r.n) THEN ZeroTotalError
      ELSE NoError

\* the error the constructor throws, or NoError
Validate(weights) ==
  LET r == Reduce(weights, 1, 0, 0)
  IN  IF r.err # NoError THEN r.err
      ELSE IF r.n # Len(weights) THEN SparseError
      ELSE IF ZeroTotal(r.tot, r.n) THEN ZeroTotalError
      ELSE NoError

\* weights.map(p => (p ?? 1) * n / tot), indexed from 0
Scaled(weights, n, tot) ==
  [i \in 0..(n - 1) |-> Rat(OrOne(weights[i + 1]) * n, tot)]

\* a variant that sends a scaled weight of exactly 1 to small
RECURSIVE Partition_OneIsSmall(_, _, _, _)
Partition_OneIsSmall(scaled, i, n, wantSmall) ==
  IF i >= n THEN <<>>
  ELSE IF (~RLess(RInt(1), scaled[i])) = wantSmall
    THEN <<i>> \o Partition_OneIsSmall(scaled, i + 1, n, wantSmall)
  ELSE Partition_OneIsSmall(scaled, i + 1, n, wantSmall)

\* scaled.forEach((pi, i) => ((pi < 1) ? small : large).push(i)): the
\* indices from i on, in order, that go to small (wantSmall) or to large
RECURSIVE Partition(_, _, _, _)
Partition(scaled, i, n, wantSmall) ==
  IF i >= n THEN <<>>
  ELSE IF RLess(scaled[i], RInt(1)) = wantSmall
    THEN <<i>> \o Partition(scaled, i + 1, n, wantSmall)
  ELSE Partition(scaled, i + 1, n, wantSmall)

\* a variant that forgets to take the paired slot's unit away
Residue_KeepsUnit(sg, sl) == RAdd(sg, sl)

\* scaled[g] = (scaled[g] + scaled[l]) - 1
Residue(sg, sl) == RAdd(RAdd(sg, sl), RInt(-1))

\* while (small.length && large.length) { ... }
RECURSIVE PairLoop(_)
PairLoop(st) ==
  IF st.small = <<>> \/ st.large = <<>> THEN st
  ELSE
    LET l == Head(st.small)
        g == Head(st.large)
        sg == Residue(st.scaled[g], st.scaled[l])
        isSmall == RLess(sg, RInt(1))
    IN  PairLoop(
          [ scaled |-> [st.scaled EXCEPT ![g] = sg],
            prob |-> [st.prob EXCEPT ![l] = Num(st.scaled[l])],
            alias |-> [st.alias EXCEPT ![l] = Num(g)],
            small |-> IF isSmall THEN Append(Tail(st.small), g)
                      ELSE Tail(st.small),
            large |-> IF isSmall THEN Tail(st.large)
                      ELSE Append(Tail(st.large), g),
            steps |-> st.steps + 1 ])

InSeq(x, s) == \E j \in 1..Len(s) : s[j] = x

\* the tables the constructor leaves, for weights that pass validation
Tables(weights) ==
  LET r == Reduce(weights, 1, 0, 0)
      n == r.n
      scaled == Scaled(weights, n, r.tot)
      st == PairLoop(
              [ scaled |-> scaled,
                prob |-> [i \in 0..(n - 1) |-> Undef],
                alias |-> [i \in 0..(n - 1) |-> Undef],
                small |-> Partition(scaled, 0, n, TRUE),
                large |-> Partition(scaled, 0, n, FALSE),
                steps |-> 0 ])
  IN  [ n |-> n,
        prob |-> [i \in 0..(n - 1) |->
                    IF InSeq(i, st.large) \/ InSeq(i, st.small)
                    THEN Num(RInt(1)) ELSE st.prob[i]],
        alias |-> st.alias,
        leftSmall |-> st.small,
        steps |-> st.steps ]

\* new Vose(weights): the error thrown, or the object
NewVose(weights) ==
  LET err == Validate(weights)
  IN  IF err # NoError
      THEN [err |-> err, w |-> weights, n |-> 0, prob |-> <<>>,
            alias |-> <<>>, leftSmall |-> <<>>, steps |-> 0]
      ELSE [err |-> NoError, w |-> weights] @@ Tables(weights)

----------------------------------------------------------------------------
(* Vose.pick (vose.ts): the position picked from draws i and flip *)

\* a variant that compares with <= instead of <
Heads_OrEqual(flip, p) == p.k = "num" /\ ~RLess(p.v, flip)

\* flip < this.#prob[i]; a comparison with undefined is false
Heads(flip, p) == p.k = "num" /\ RLess(flip, p.v)

PickIndex(v, i, flip) ==
  IF i \in DOMAIN v.prob /\ Heads(flip, v.prob[i]) THEN Num(i)
  ELSE IF i \in DOMAIN v.alias THEN v.alias[i]
  ELSE Undef

\* a variant that returns early only after asking the source
UptoCall_AlwaysDraws(num, b) ==
  [draws |-> <<4>>, val |-> IF num = 0 THEN 0 ELSE UptoValue(num, b)]

\* a variant that also returns 0 early when num is 1
UptoCall_SkipsOne(num, b) ==
  IF num <= 1 THEN [draws |-> <<>>, val |-> 0]
  ELSE [draws |-> <<4>>, val |-> UptoValue(num, b)]

\* upto(num, reason): returns 0 without a draw when num is 0, uInt32 % num
\* otherwise
UptoCall(num, b) ==
  IF num = 0 THEN [draws |-> <<>>, val |-> 0]
  ELSE [draws |-> <<4>>, val |-> UptoValue(num, b)]

\* Vose.pick(rnd, reason), called with rnd of kind rndKind ("Random" for a
\* Random instance, "string" for a string), the source answering b4 and b8.
\* A string has no method upto, so rnd.upto(...) throws a TypeError.
VosePick(v, rndKind, b4, b8) ==
  IF rndKind # "Random"
  THEN [threw |-> TypeError, draws |-> <<>>, ret |-> Undef,
        i |-> 0, flip |-> RInt(0)]
  ELSE
    LET die == UptoCall(v.n, b4)
        flip == RandomValue(b8)
    IN  [threw |-> NoError, draws |-> die.draws \o <<8>>,
         ret |-> PickIndex(v, die.val, flip), i |-> die.val, flip |-> flip]

----------------------------------------------------------------------------
(* Random.gauss (index.ts) *)

NoSpare == [held |-> FALSE, v |-> RInt(0), s |-> RInt(0)]

\* v * Math.sqrt(-2.0 * Math.log(s) / s), kept symbolic as the pair (v, s)
Deviate(v, s) == [held |-> TRUE, v |-> v, s |-> s]

\* v = (2 * this.random(reason)) - 1
GaussV(b) == RAdd(RMul(RInt(2), RandomValue(b)), RInt(-1))

\* s = (v1 * v1) + (v2 * v2)
GaussS(b1, b2) ==
  RAdd(RMul(GaussV(b1), GaussV(b1)), RMul(GaussV(b2), GaussV(b2)))

\* while (s >= 1)
Retry(s) == ~RLess(s, RInt(1))

\* the pairs of buffers on which a pass of the loop goes round again, and
\* those on which it ends
RetryPairs == {p \in Buf8 \X Buf8 : Retry(GaussS(p[1], p[2]))}
EndPairs == {p \in Buf8 \X Buf8 : ~Retry(GaussS(p[1], p[2]))}

\* a variant that returns the spare and keeps it
GaussFromSpare_KeepsSpare(mean, stdDev, spare) ==
  [ ret |-> [k |-> "gauss", mean |-> mean, stdDev |-> stdDev, dev |-> spare],
    spare |-> spare ]

\* the branch taken when a spare is held: the value returned and the spare
\* left
GaussFromSpare(mean, stdDev, spare) ==
  [ ret |-> [k |-> "gauss", mean |-> mean, stdDev |-> stdDev, dev |-> spare],
    spare |-> NoSpare ]

\* the code after the loop, which ended on buffers b1, b2
GaussFresh(mean, stdDev, b1, b2) ==
  LET s == GaussS(b1, b2)
  IN  IF s = RInt(0)
      THEN [ret |-> Num(mean), spare |-> NoSpare]
      ELSE [ ret |-> [k |-> "gauss", mean |-> mean, stdDev |-> stdDev,
                      dev |-> Deviate(GaussV(b1), s)],
             spare |-> Deviate(GaussV(b2), s) ]

----------------------------------------------------------------------------
(* Random.pick (index.ts): the arrays the model picks from *)

ArrayIds == {"plain", "w1", "w2", "zeros", "empty"}

\* an array: its items, and the weight vector attached under FREQS, if any
Array(a) ==
  CASE a = "plain" ->
         [items |-> <<"x", "y">>, weighted |-> FALSE, w |-> <<>>]
    [] a = "w1" ->
         [items |-> <<"x", "y", "z">>, weighted |-> TRUE,
          w |-> <<Num(1), Num(0), Num(2)>>]
    [] a = "w2" ->
         [items |-> <<"x", "y", "z">>, weighted |-> TRUE,
          w |-> <<Num(1), Num(0), Num(2)>>]
    [] a = "zeros" ->
         [items |-> <<"x", "y">>, weighted |-> TRUE,
          w |-> <<Num(0), Num(0)>>]
    [] a = "empty" ->
         [items |-> <<>>, weighted |-> FALSE, w |-> <<>>]

\* ary[i], for i a position or undefined
Item(items, i) ==
  IF i.k = "num" /\ i.v + 1 \in DOMAIN items
  THEN [k |-> "item", v |-> items[i.v + 1]]
  ELSE [k |-> "undef", v |-> ""]

\* a variant that never finds the entry
CacheGet_AlwaysMisses(cache, a) == <<>>

\* this.#freqs.get(ary): <<the cached Vose>>, or <<>> when there is none
CacheGet(cache, a) == IF a \in DOMAIN cache THEN <<cache[a]>> ELSE <<>>

----------------------------------------------------------------------------
(* The state machine *)

NoVose ==
  [err |-> [e |-> "no-object", v |-> 0], w |-> <<>>, n |-> 0, prob |-> <<>>,
   alias |-> <<>>, leftSmall |-> <<>>, steps |-> 0]

NoGauss == [called |-> FALSE, drew |-> FALSE, s |-> RInt(0)]

Init ==
  /\ spareGauss = NoSpare
  /\ freqs = <<>>
  /\ built = [a \in ArrayIds |-> 0]
  /\ input = <<>>
  /\ vose = NoVose
  /\ op = [name |-> "new Random"]
  /\ draws = <<>>
  /\ ret = Undef
  /\ threw = NoError
  /\ gaussLog = NoGauss

\* what a call leaves to be observed
Called(o, d, r, t) ==
  /\ op' = o
  /\ draws' = d
  /\ ret' = r
  /\ threw' = t

\* bytes(num, reason)
Bytes ==
  \E num \in 0..MaxBytes : \E b \in Source(num) :
    /\ Called([name |-> "bytes", num |-> num], <<num>>,
              [k |-> "bytes", v |-> b], NoError)
    /\ UNCHANGED <<spareGauss, freqs, built, input, vose, gaussLog>>

\* uInt32(reason)
UInt32 ==
  \E b \in Source(4) :
    /\ Called([name |-> "uInt32"], <<4>>, Num(GetUint32(b)), NoError)
    /\ UNCHANGED <<spareGauss, freqs, built, input, vose, gaussLog>>

\* upto(num, reason)
Upto ==
  \E num \in 0..MaxUpto : \E b \in Source(4) :
    /\ Called([name |-> "upto", num |-> num], UptoCall(num, b).draws,
              Num(UptoCall(num, b).val), NoError)
    /\ UNCHANGED <<spareGauss, freqs, built, input, vose, gaussLog>>

\* uBigInt(bytes, reason)
UBigInt ==
  \E num \in 0..MaxBytes : \E b \in Source(num) :
    /\ Called([name |-> "uBigInt", num |-> num], <<num>>,
              Num(BigOf(b, 0)), NoError)
    /\ UNCHANGED <<spareGauss, freqs, built, input, vose, gaussLog>>

\* random(reason)
RandomCall ==
  \E b \in Source(8) :
    /\ Called([name |-> "random", buf |-> b], <<8>>,
              Num(RandomValue(b)), NoError)
    /\ UNCHANGED <<spareGauss, freqs, built, input, vose, gaussLog>>

\* the (mean, stdDev) pairs gauss is called with
GaussArgs == {<<1, 2>>, <<10, 3>>}

\* gauss(mean, stdDev, reason) while a spare is held
GaussSpare ==
  \E args \in GaussArgs :
    /\ spareGauss.held
    /\ LET g == GaussFromSpare(args[1], args[2], spareGauss)
       IN  /\ Called([name |-> "gauss", mean |-> args[1], stdDev |-> args[2]],
                     <<>>, g.ret, NoError)
           /\ spareGauss' = g.spare
    /\ gaussLog' = [called |-> TRUE, drew |-> FALSE, s |-> RInt(0)]
    /\ UNCHANGED <<freqs, built, input, vose>>

\* gauss(mean, stdDev, reason) while no spare is held: `passes` passes of
\* the loop, each drawing two 8-byte buffers, all but the last with s >= 1.
\* The buffers of the passes that go round again reach nothing but the
\* count of draws, so the action asks only that such buffers exist.
GaussDraw ==
  \E args \in GaussArgs :
    \E passes \in 1..MaxGaussIter, last \in EndPairs :
      /\ ~spareGauss.held
      /\ passes = 1 \/ RetryPairs # {}
      /\ LET g == GaussFresh(args[1], args[2], last[1], last[2])
         IN  /\ Called([name |-> "gauss", mean |-> args[1],
                        stdDev |-> args[2]],
                       [i \in 1..(2 * passes) |-> 8], g.ret, NoError)
             /\ spareGauss' = g.spare
      /\ gaussLog' = [called |-> TRUE, drew |-> TRUE,
                      s |-> GaussS(last[1], last[2])]
      /\ UNCHANGED <<freqs, built, input, vose>>

\* pick(ary, reason)
Pick ==
  \E a \in ArrayIds :
    LET ary == Array(a)
        o == [name |-> "pick", ary |-> a]
    IN
      IF Len(ary.items) = 0
      THEN \* assert(ary.length > 0)
        /\ Called(o, <<>>, Undef, AssertError)
        /\ UNCHANGED <<spareGauss, freqs, built, input, vose, gaussLog>>
      ELSE IF ary.weighted
      THEN
        LET hit == CacheGet(freqs, a)
            v == IF hit # <<>> THEN hit[1] ELSE NewVose(ary.w)
        IN  IF v.err # NoError
            THEN \* new Vose(weights, this) throws
              /\ Called(o, <<>>, Undef, v.err)
              /\ UNCHANGED <<spareGauss, freqs, built, input, vose, gaussLog>>
            ELSE
              \* freqs.pick(reason): the reason string is the only argument
              \E b4 \in Source(4), b8 \in Source(8) :
                LET p == VosePick(v, "string", b4, b8)
                IN  /\ freqs' = IF hit # <<>> THEN freqs
                                ELSE (a :> v) @@ freqs
                    /\ built' = IF hit # <<>> THEN built
                                ELSE [built EXCEPT ![a] = @ + 1]
                    /\ Called(o, p.draws,
                              IF p.threw = NoError
                              THEN Item(ary.items, p.ret) ELSE Undef,
                              p.threw)
                    /\ UNCHANGED <<spareGauss, input, vose, gaussLog>>
      ELSE
        \E b \in Source(4) :
          LET u == UptoCall(Len(ary.items), b)
          IN  /\ Called(o, u.draws, Item(ary.items, Num(u.val)), NoError)
              /\ UNCHANGED <<spareGauss, freqs, built, input, vose, gaussLog>>

\* bool(reason): Boolean(this.upto(2, ...))
BoolValue(b) == UptoCall(2, b).val # 0

Bool ==
  \E b \in Source(4) :
    /\ Called([name |-> "bool"], UptoCall(2, b).draws,
              [k |-> "bool", v |-> BoolValue(b)], NoError)
    /\ UNCHANGED <<spareGauss, freqs, built, input, vose, gaussLog>>

\* ary.filter(() => this.bool(...)): one bool per element, in order
RECURSIVE Filter(_, _)
Filter(items, bs) ==
  IF items = <<>> THEN <<>>
  ELSE (IF BoolValue(Head(bs)) THEN <<Head(items)>> ELSE <<>>)
         \o Filter(Tail(items), Tail(bs))

RECURSIVE FilterDraws(_)
FilterDraws(bs) ==
  IF bs = <<>> THEN <<>>
  ELSE UptoCall(2, Head(bs)).draws \o FilterDraws(Tail(bs))

\* the collections some is called with are the prefixes of Pool
Pool == <<"a", "b">>

\* some(ary, reason), for a string or an array
Some ==
  \E kind \in {"string", "array"}, len \in 0..Len(Pool) :
    \E bs \in [1..len -> Source(4)] :
      /\ Called([name |-> "some", kind |-> kind, len |-> len],
                FilterDraws(bs),
                [k |-> kind, v |-> Filter(SubSeq(Pool, 1, len), bs)],
                NoError)
      /\ UNCHANGED <<spareGauss, freqs, built, input, vose, gaussLog>>

Next ==
  \/ Bytes
  \/ UInt32
  \/ Upto
  \/ UBigInt
  \/ RandomCall
  \/ GaussSpare
  \/ GaussDraw
  \/ Pick
  \/ Bool
  \/ Some

Spec == Init /\ [][Next]_vars

----------------------------------------------------------------------------
(* The sampler on its own, as test/vose.test.js uses it: one weight       *)
(* vector, `new Vose(weights)` on it, then `v.pick(r)` any number of times *)

InitVose ==
  /\ spareGauss = NoSpare
  /\ freqs = <<>>
  /\ built = [a \in ArrayIds |-> 0]
  /\ input \in WeightVectors
  /\ vose = NoVose
  /\ op = [name |-> "new Random"]
  /\ draws = <<>>
  /\ ret = Undef
  /\ threw = NoError
  /\ gaussLog = NoGauss

VoseNew ==
  /\ vose = NoVose
  /\ vose' = NewVose(input)
  /\ Called([name |-> "Vose.new"], <<>>, Undef, NewVose(input).err)
  /\ UNCHANGED <<spareGauss, freqs, built, input, gaussLog>>

VosePickCall ==
  \E b4 \in Source(4), b8 \in Source(8) :
    /\ vose.err = NoError
    /\ LET p == VosePick(vose, "Random", b4, b8)
       IN  Called([name |-> "Vose.pick", i |-> p.i, flip |-> p.flip],
                  p.draws, p.ret, p.threw)
    /\ UNCHANGED <<spareGauss, freqs, built, input, vose, gaussLog>>

NextVose ==
  \/ VoseNew
  \/ VosePickCall

SpecVose == InitVose /\ [][NextVose]_vars

----------------------------------------------------------------------------
(* Properties of the Vose constructor and of Vose.pick, under SpecVose *)

Dense(w) == \A i \in 1..Len(w) : w[i].k # "hole"

Negative(e) == e.k = "num" /\ e.v < 0

HasNegative(w) == \E i \in 1..Len(w) : Negative(w[i])

FirstNegative(w) ==
  w[CHOOSE i \in 1..Len(w) :
      Negative(w[i]) /\ \A j \in 1..(i - 1) : ~Negative(w[j])].v

RECURSIVE SumWeights(_)
SumWeights(w) ==
  IF w = <<>> THEN 0 ELSE OrOne(Head(w)) + SumWeights(Tail(w))

\* (sum over j >= from with alias[j] = i of (1 - prob[j]))
RECURSIVE AliasMass(_, _, _)
AliasMass(v, i, from) ==
  IF from >= v.n THEN RInt(0)
  ELSE RAdd(IF v.alias[from] = Num(i)
            THEN RAdd(RInt(1), RMul(RInt(-1), v.prob[from].v))
            ELSE RInt(0),
            AliasMass(v, i, from + 1))

\* prob[i]/N + (sum over j with alias[j] = i of (1 - prob[j]))/N
PickProbability(v, i) ==
  RMul(RAdd(v.prob[i].v, AliasMass(v, i, 0)), Rat(1, v.n))

\* C1: for every dense weight vector of length N > 0 with non-negative
\* weights and total > 0, the constructor's tables give every index i the
\* probability prob[i]/N + (sum over alias[j] = i of (1 - prob[j]))/N
\* = weights[i]/total, an unset weight counting as 1.
C1_AliasTablesMatchWeights ==
  (vose.err = NoError /\ vose.n > 0) =>
    \A i \in 0..(vose.n - 1) :
      PickProbability(vose, i)
        = Rat(OrOne(vose.w[i + 1]), SumWeights(vose.w))

\* a sampler whose pairing loop moved a large index to small, built from a
\* vector with an unset weight
C1_Witness ==
  /\ vose.err = NoError
  /\ vose.n >= 3
  /\ \E j \in 1..Len(vose.w) : vose.w[j] = Undef
  /\ \E i, j \in 0..(vose.n - 1) :
       /\ vose.alias[i].k = "num"
       /\ vose.alias[j] = Num(i)
       /\ vose.prob[i].v # RInt(0)

ZeroSlots(v) == {k \in 0..(v.n - 1) : v.w[k + 1] = Num(0)}

\* C2: for every valid weight vector in which slot k has weight 0, prob[k]
\* is 0, k is the alias of no slot, and Vose.pick never returns k, whatever
\* the die and the flip.
C2_ZeroWeightNeverPicked ==
  vose.err = NoError =>
    \A k \in ZeroSlots(vose) :
      /\ vose.prob[k] = Num(RInt(0))
      /\ \A j \in 0..(vose.n - 1) : vose.alias[j] # Num(k)
      /\ op.name = "Vose.pick" => ret # Num(k)

\* a pick whose die landed on a zero-weight slot and whose flip was 0
C2_Witness ==
  /\ vose.err = NoError
  /\ op.name = "Vose.pick"
  /\ op.i \in ZeroSlots(vose)
  /\ op.flip = RInt(0)
  /\ draws = <<4, 8>>

\* Vose.pick called with a Random, as test/vose.test.js does: it asks the
\* source for 4 bytes (the die, unless the tables are empty) and then for
\* 8 bytes (the flip), and returns the die's position or its alias.
VosePickDrawsDieThenFlip ==
  op.name = "Vose.pick" =>
    /\ threw = NoError
    /\ draws = IF vose.n = 0 THEN <<8>> ELSE <<4, 8>>
    /\ vose.n > 0 => ret \in {Num(op.i), vose.alias[op.i]}

\* C6 as claimed: the constructor validates sparse first, then negative,
\* then zero total: a sparse vector gets the sparse-array error even when
\* it holds a negative weight, and a dense vector with a negative weight
\* gets the negative-weight error even when its total is 0.
C6_Original ==
  vose # NoVose =>
    /\ ~Dense(vose.w) => vose.err = SparseError
    /\ (Dense(vose.w) /\ HasNegative(vose.w)) => vose.err.e = "negative"

\* C6 amended: the constructor validates negative first, then sparse, then
\* zero total: a vector holding a negative weight gets the negative-weight
\* error naming its first negative weight, even when it is sparse or its
\* total is 0; a sparse vector with no negative weight gets the
\* sparse-array error, even when its weights total 0.
C6_NegativeBeforeSparse ==
  vose # NoVose =>
    /\ HasNegative(vose.w) =>
         vose.err = NegativeError(FirstNegative(vose.w))
    /\ (~HasNegative(vose.w) /\ ~Dense(vose.w)) => vose.err = SparseError
    /\ (~HasNegative(vose.w) /\ Dense(vose.w)) =>
         vose.err \in {NoError, ZeroTotalError}

\* a sparse vector that holds a negative weight, rejected as negative
C6_Witness ==
  /\ vose # NoVose
  /\ ~Dense(vose.w)
  /\ HasNegative(vose.w)
  /\ vose.err.e = "negative"

----------------------------------------------------------------------------
(* Properties of Random, under Spec *)

Positive(r) == RLess(RInt(0), r)

\* C3: a spare deviate is held exactly when the most recent gauss call drew
\* from the source and ended its loop with 0 < s < 1.  A gauss call made
\* while a spare is held returns mean + stdDev * spare with its own mean
\* and stdDev, draws nothing and clears the spare; a gauss call that draws
\* and ends with s = 0 returns mean and stores no spare.
C3_SpareUsedOnce ==
  /\ [](spareGauss.held <=>
          /\ gaussLog.called
          /\ gaussLog.drew
          /\ Positive(gaussLog.s)
          /\ RLess(gaussLog.s, RInt(1)))
  /\ [][op'.name = "gauss" =>
          IF spareGauss.held
          THEN /\ ret' = [k |-> "gauss", mean |-> op'.mean,
                          stdDev |-> op'.stdDev, dev |-> spareGauss]
               /\ draws' = <<>>
               /\ ~spareGauss'.held
          ELSE /\ draws' # <<>>
               /\ gaussLog'.drew
               /\ gaussLog'.s = RInt(0) =>
                    (ret' = Num(op'.mean) /\ ~spareGauss'.held)
               /\ Positive(gaussLog'.s) =>
                    (spareGauss'.held /\ spareGauss'.s = gaussLog'.s)
       ]_vars

\* a gauss call that returned the spare an earlier call stored
C3_Witness ==
  /\ op.name = "gauss"
  /\ draws = <<>>
  /\ ret.k = "gauss"
  /\ ret.dev.held
  /\ Positive(ret.dev.s)
  /\ ~spareGauss.held

\* C4: upto(0, reason) returns 0 and makes no call to the byte source, in
\* every state of the Random; the spare and the sampler cache stay as they
\* were.
C4_UptoZeroDrawsNothing ==
  [][(op'.name = "upto" /\ op'.num = 0) =>
       /\ ret' = Num(0)
       /\ draws' = <<>>
       /\ threw' = NoError
       /\ spareGauss' = spareGauss
       /\ freqs' = freqs
    ]_vars

\* upto(0) called while a spare is held and a sampler is cached
C4_Witness ==
  /\ op.name = "upto"
  /\ op.num = 0
  /\ draws = <<>>
  /\ spareGauss.held
  /\ freqs # <<>>

\* the 52 mantissa bits the source supplied: bytes 0..5 and the low nibble
\* of byte 6
MantissaIsZero(b) == (\A i \in 1..6 : b[i] = 0) /\ b[7] % 16 = 0

Cacheable(a) ==
  /\ Array(a).items # <<>>
  /\ Array(a).weighted
  /\ Validate(Array(a).w) = NoError

\* C8: a sampler is constructed at most once per array identity: the first
\* weighted pick on an array constructs and caches it, every later pick on
\* that array leaves the cache as it is and constructs nothing, and two
\* arrays with equal weight vectors get an entry and a construction each.
C8_OneSamplerPerArray ==
  /\ [](\A a \in ArrayIds :
          /\ built[a] <= 1
          /\ a \in DOMAIN freqs <=> built[a] = 1)
  /\ [][(op'.name = "pick" /\ Cacheable(op'.ary)) =>
          IF op'.ary \in DOMAIN freqs
          THEN freqs' = freqs /\ built' = built
          ELSE /\ DOMAIN freqs' = DOMAIN freqs \cup {op'.ary}
               /\ built' = [built EXCEPT ![op'.ary] = 1]
       ]_vars

\* a pick on w1 after both w1 and w2, which carry equal weights, have been
\* picked from
C8_Witness ==
  /\ op = [name |-> "pick", ary |-> "w1"]
  /\ built["w1"] = 1
  /\ built["w2"] = 1
  /\ Array("w1").w = Array("w2").w
  /\ DOMAIN freqs = {"w1", "w2"}

Operations ==
  {"bytes", "uInt32", "upto", "uBigInt", "random", "gauss", "pick", "bool",
   "some"}

\* C9 as claimed, for the calls that return: every call of bytes, uInt32,
\* upto, uBigInt, random, gauss, pick, bool and some makes at least one
\* call to the byte source, except upto(0, _).
C9_Original ==
  (/\ op.name \in Operations
   /\ threw = NoError
   /\ ~(op.name = "upto" /\ op.num = 0)) =>
    draws # <<>>

\* C9 amended: every call of bytes, uInt32, uBigInt, random and bool, every
\* upto(n) with n # 0, every gauss call made while no spare is held, every
\* pick on a non-empty array without attached weights and every some on a
\* non-empty collection makes at least one call to the byte source;
\* upto(0, _), a gauss call made while a spare is held and some on an empty
\* collection make none.
C9_DrawsExceptSpareAndEmpty ==
  /\ [](/\ op.name \in {"bytes", "uInt32", "uBigInt", "random", "bool"} =>
             draws # <<>>
        /\ op.name = "upto" => (draws = <<>> <=> op.num = 0)
        /\ op.name = "some" => (draws = <<>> <=> op.len = 0)
        /\ (/\ op.name = "pick"
            /\ Array(op.ary).items # <<>>
            /\ ~Array(op.ary).weighted) => draws # <<>>)
  /\ [][op'.name = "gauss" => (draws' = <<>> <=> spareGauss.held)]_vars

\* some called on an empty collection
C9_Witness ==
  /\ op.name = "some"
  /\ op.len = 0
  /\ draws = <<>>
  /\ ret.v = <<>>

\* C10: a pick on a non-empty array with an attached weight vector of
\* length N makes two calls to the byte source, for 4 bytes (the die, taken
\* modulo N) and then for 8 bytes (the flip), and returns an element of the
\* array; a pick on a non-empty array without weights makes one call, for 4
\* bytes, and returns array[draw mod length].
C10_Claim ==
  (op.name = "pick" /\ Array(op.ary).items # <<>>) =>
    IF Array(op.ary).weighted
    THEN Validate(Array(op.ary).w) = NoError =>
           /\ threw = NoError
           /\ draws = <<4, 8>>
           /\ ret.k = "item"
    ELSE /\ threw = NoError
         /\ draws = <<4>>
         /\ \E b \in Source(4) :
              ret = Item(Array(op.ary).items,
                         Num(GetUint32(b) % Len(Array(op.ary).items)))

----------------------------------------------------------------------------
(* The pairing loop in exact arithmetic, under SpecVose *)

\* C11: on every valid weight vector (dense, non-negative, total > 0) the
\* pairing loop, run in exact arithmetic, ends after fewer than N passes
\* with the small queue empty, so no leftover small index is given prob 1,
\* and every index whose prob is below 1 has an alias in [0, N).
C11_SmallQueueEndsEmpty ==
  (vose.err = NoError /\ vose.n > 0) =>
    /\ vose.steps < vose.n
    /\ vose.leftSmall = <<>>
    /\ \A i \in 0..(vose.n - 1) :
         /\ vose.prob[i].k = "num"
         /\ RLess(vose.prob[i].v, RInt(1)) =>
              (vose.alias[i].k = "num" /\ vose.alias[i].v \in 0..(vose.n - 1))

\* a sampler whose loop ran at least twice and paired an index that had
\* itself been large, leaving it a prob strictly between 0 and 1
C11_Witness ==
  /\ vose.err = NoError
  /\ vose.steps >= 2
  /\ vose.leftSmall = <<>>
  /\ \E i, j \in 0..(vose.n - 1) :
       /\ vose.alias[j] = Num(i)
       /\ vose.alias[i].k = "num"
       /\ RLess(RInt(0), vose.prob[i].v)
       /\ RLess(vose.prob[i].v, RInt(1))

====
